---- MODULE Spec2Model ----
(***************************************************************************)
(* Model of the file graph crawler of a2a-agent-card-generator             *)
(* (src/crawler.py): PythonCodeWalker.walk_directory, extract_imports and  *)
(* get_concatenated_files_to_analyze.                                      *)
(*                                                                         *)
(* Strings are modelled structurally.  A path string is the sequence of    *)
(* its '/'-separated components, and a component is the sequence of its    *)
(* '.'-separated tokens: "/x/sub/b.py" is                                  *)
(*     << <<"">>, <<"x">>, <<"sub">>, <<"b","py">> >>                      *)
(* (the empty first component is what precedes the leading '/').  A module *)
(* name is the sequence of its '.'-separated tokens: "sub.b" is            *)
(* <<"sub","b">>.                                                          *)
(***************************************************************************)
EXTENDS Integers, Sequences, FiniteSets, TLC

(***************************************************************************)
(* Bounds of the explored filesystems.                                     *)
(***************************************************************************)
MaxFiles == 3
MaxBad == 1
MaxImports == 2
MaxPerFile == 2
MaxParses == 6
MaxCalls == 2
LiveFiles == 2
LiveImports == 2
MaxRuns == 2

(***************************************************************************)
(* Path strings.                                                           *)
(***************************************************************************)
Root == <<"">>

Cwd == <<Root, <<"x">>>>

None == <<<<"None">>>>

IsAbs(p) == Len(p) > 0 /\ p[1] = Root

\* os.path.join(a, b)
Join(a, b) == IF IsAbs(b) THEN b ELSE a \o b

\* os.path.dirname(p)
Dirname(p) == IF Len(p) = 0 THEN <<>> ELSE SubSeq(p, 1, Len(p) - 1)

\* os.path.abspath(p)
Abspath(p) == IF IsAbs(p) THEN p ELSE Cwd \o p

\* p.endswith('.py')
EndsWithPy(p) ==
    /\ Len(p) > 0
    /\ LET c == p[Len(p)] IN Len(c) >= 2 /\ c[Len(c)] = "py"

\* imp.replace('.', os.sep) + '.py'
ModulePath(imp) ==
    [i \in 1..Len(imp) |-> IF i = Len(imp) THEN <<imp[i], "py">> ELSE <<imp[i]>>]

\* imp + '.py'
RawPath(imp) == <<Append(imp, "py")>>

PossiblePaths_Swapped(base, current, imp) ==
    << Join(Dirname(current), ModulePath(imp)),
       Join(base, ModulePath(imp)),
       Join(base, RawPath(imp)),
       Join(Dirname(current), RawPath(imp)) >>

\* possible_paths of walk_directory
PossiblePaths(base, current, imp) ==
    << Join(base, ModulePath(imp)),
       Join(Dirname(current), ModulePath(imp)),
       Join(base, RawPath(imp)),
       Join(Dirname(current), RawPath(imp)) >>

(***************************************************************************)
(* The files that may exist, and the module names that may be imported.    *)
(***************************************************************************)
UPaths ==
    << Cwd \o <<<<"a", "py">>>>,
       Cwd \o <<<<"sub">>, <<"a", "py">>>>,
       Cwd \o <<<<"sub">>, <<"b", "py">>>>,
       Cwd \o <<<<"sub">>, <<"sub">>, <<"b", "py">>>>,
       Cwd \o <<<<"sub", "b", "py">>>>,
       Cwd \o <<<<"a", "txt">>>> >>

U == {UPaths[i] : i \in 1..Len(UPaths)}

Mods == {<<"a">>, <<"sub", "b">>, <<"sub", "sub", "b">>}

\* the arguments (start_file, base_dir) of the explored calls
Calls ==
    { <<<<<<"a", "py">>>>, Cwd>>,
      <<<<<<"sub">>, <<"b", "py">>>>, Cwd>>,
      <<<<<<"sub">>, <<"sub">>, <<"b", "py">>>>, Cwd>>,
      <<<<<<"sub">>, <<"b", "py">>>>, None>>,
      <<<<<<"a", "txt">>>>, Cwd>> }

\* the call explored by the termination check
LiveCalls == { <<<<<<"sub">>, <<"b", "py">>>>, Cwd>> }

(***************************************************************************)
(* Syntax trees (tree_sitter Node): type, source text, children.           *)
(***************************************************************************)
Leaf(t, txt) == [type |-> t, text |-> txt, children |-> <<>>]

\* import <m>
ImportStmt(m) ==
    [type |-> "import_statement", text |-> <<>>,
     children |-> <<Leaf("import", <<>>), Leaf("dotted_name", m)>>]

\* from <m> import X
FromStmt(m) ==
    [type |-> "import_from_statement", text |-> <<>>,
     children |-> <<Leaf("from", <<>>), Leaf("dotted_name", m),
                    Leaf("import", <<>>), Leaf("dotted_name", <<"X">>)>>]

\* def f(): <body>
FuncDef(body) ==
    [type |-> "function_definition", text |-> <<>>,
     children |-> <<Leaf("def", <<>>), Leaf("identifier", <<"f">>),
                    Leaf("parameters", <<>>),
                    [type |-> "block", text |-> <<>>, children |-> body]>>]

\* the construct that names the i-th module of a text: a plain import, a
\* from-import or an import nested in a function, varying with the position
\* and with the number of tokens of the module name
Construct(i, m) ==
    IF (i + Len(m)) % 3 = 1 THEN ImportStmt(m)
    ELSE IF (i + Len(m)) % 3 = 2 THEN FromStmt(m)
    ELSE FuncDef(<<ImportStmt(m)>>)

\* self.parser.parse of a text whose import constructs name the modules of
\* L, in document order
Parse(L) ==
    [type |-> "module", text |-> <<>>,
     children |-> [i \in 1..Len(L) |-> Construct(i, L[i])]]

RECURSIVE Flatten(_)
Flatten(ss) == IF Len(ss) = 0 THEN <<>> ELSE Head(ss) \o Flatten(Tail(ss))

\* the dotted_name children of an import_statement, all of them
DottedNames(children) ==
    Flatten([i \in 1..Len(children) |->
               IF children[i].type = "dotted_name"
               THEN <<children[i].text>> ELSE <<>>])

\* the first dotted_name child of an import_from_statement (loop with break)
FirstDottedName(children) ==
    LET ds == DottedNames(children)
    IN  IF Len(ds) = 0 THEN <<>> ELSE <<Head(ds)>>

\* what walk_imports appends for the node itself
OwnImports(node) ==
    IF node.type = "import_statement"
    THEN DottedNames(node.children)
    ELSE IF node.type = "import_from_statement"
    THEN FirstDottedName(node.children)
    ELSE <<>>

\* walk_imports(node), and its loop over the children from the i-th on
RECURSIVE walk_imports(_), walk_children(_, _)
walk_imports(node) == OwnImports(node) \o walk_children(node, 1)

walk_children(node, i) ==
    IF i > Len(node.children) THEN <<>>
    ELSE walk_imports(node.children[i]) \o walk_children(node, i + 1)

extract_imports(node) == walk_imports(node)

(***************************************************************************)
(* Filesystems: each path of U is absent, present with a readable text, or *)
(* present with a text that parse_file cannot read ("bad": it raises, for  *)
(* instance on bytes that are not UTF-8).  The text of a file is given by  *)
(* the module names of its import constructs, in document order.           *)
(***************************************************************************)
Absent == [kind |-> "absent", text |-> <<>>]

Bad(L) == [kind |-> "bad", text |-> L]

Ok(L) == [kind |-> "ok", text |-> L]

ListsOfLen(n) == [1..n -> Mods]

Min(a, b) == IF a < b THEN a ELSE b

Count(g, kinds) == Cardinality({i \in 1..Len(g) : g[i].kind \in kinds})

RECURSIVE Total(_)
Total(g) == IF Len(g) = 0 THEN 0 ELSE Len(Head(g).text) + Total(Tail(g))

\* the states the next file may have after the files of g, with at most mf
\* files, mb of them bad, and mi imports in all
FileStates(g, mf, mb, mi) ==
    LET nf == mf - Count(g, {"ok", "bad"})
        nb == mb - Count(g, {"bad"})
        ni == mi - Total(g)
    IN  {Absent}
        \cup (IF nf > 0
              THEN {Ok(L) : L \in UNION {ListsOfLen(n) :
                                           n \in 0..Min(ni, MaxPerFile)}}
              ELSE {})
        \cup (IF nf > 0 /\ nb > 0
              THEN {Bad(L) : L \in UNION {ListsOfLen(n) : n \in 0..Min(ni, 1)}}
              ELSE {})

\* the states of a file that is no .py file, whose text is never read: it
\* is absent or, if g has fewer than mf files, present
OtherFileStates(g, mf) ==
    {Absent} \cup (IF mf - Count(g, {"ok", "bad"}) > 0 THEN {Ok(<<>>)} ELSE {})

\* fs is a filesystem within the bounds: one state per path of UPaths
IsFileSystem(g, mf, mb, mi) ==
    \E f1 \in FileStates(<<>>, mf, mb, mi) :
    \E f2 \in FileStates(<<f1>>, mf, mb, mi) :
    \E f3 \in FileStates(<<f1, f2>>, mf, mb, mi) :
    \E f4 \in FileStates(<<f1, f2, f3>>, mf, mb, mi) :
    \E f5 \in FileStates(<<f1, f2, f3, f4>>, mf, mb, mi) :
    \E f6 \in OtherFileStates(<<f1, f2, f3, f4, f5>>, mf) :
        g = <<f1, f2, f3, f4, f5, f6>>

VARIABLES
    fs,                \* the filesystem: state of UPaths[i], unchanged
    base_dir,          \* walk_directory: base_dir after defaulting
    seed,              \* walk_directory: the initial queue element
    visited_files,     \* walk_directory: visited_files
    files_to_process,  \* walk_directory: files_to_process
    result,            \* walk_directory: result, as insertion-ordered items
    output,            \* get_concatenated_files_to_analyze: returned text
    pc,                \* position: "idle", "loop", "returned", "done"
    parsed,            \* history: the paths parse_file was called on
    enqueued,          \* history: every append to files_to_process
    args,              \* history: the arguments of the call
    calls,             \* history: completed calls
    prev,              \* history: result and output of the previous call
    fetched,           \* index: the text returned by line 81 of metadata.py
    agent_py,          \* index: agent_py
    sent,              \* index: the texts passed to the card generators
    index_pc           \* index: "off", "fetched", "bounded", "carded", "end"

vars == <<fs, base_dir, seed, visited_files, files_to_process, result, output,
          pc, parsed, enqueued, args, calls, prev,
          fetched, agent_py, sent, index_pc>>

crawl_vars == <<fs, base_dir, seed, visited_files, files_to_process, result,
                output, pc, parsed, enqueued, args, calls, prev>>

index_vars == <<fetched, agent_py, sent, index_pc>>

Index(p) == CHOOSE i \in 1..Len(UPaths) : UPaths[i] = p

FileAt(p) == IF p \in U THEN fs[Index(p)] ELSE Absent

\* os.path.exists(p)
Exists(p) == FileAt(p).kind # "absent"

\* parse_file(p) raises
ParseFails(p) == FileAt(p).kind = "bad"

Skipped_Never(p) == FALSE

\* the test of line 104
Skipped(p) == ~Exists(p) \/ ~EndsWithPy(p)

\* the imports the text of a file holds, read or not
WouldImport(p) == extract_imports(Parse(FileAt(p).text))

\* parse_file(p), when it does not raise
parse_file(p) == Parse(FileAt(p).text)

(***************************************************************************)
(* The result dict: a sequence of items in insertion order.                *)
(***************************************************************************)
Keys(d) == [i \in 1..Len(d) |-> d[i].key]

KeySet(d) == {d[i].key : i \in 1..Len(d)}

\* d[k] = v: a new key is appended, an existing key keeps its position
DictSet(d, k, v) ==
    IF k \in KeySet(d)
    THEN [i \in 1..Len(d) |-> IF d[i].key = k THEN [key |-> k, info |-> v]
                                               ELSE d[i]]
    ELSE Append(d, [key |-> k, info |-> v])

\* 'error' in info
HasError(info) == "error" \in DOMAIN info

(***************************************************************************)
(* walk_directory                                                          *)
(***************************************************************************)
\* base_dir after the default of lines 89-90
DefaultBase(start_file, bd) ==
    IF bd = None THEN Dirname(Abspath(start_file)) ELSE bd

NewVisited_Kept(old) == old

\* the locals of one call, given those an earlier call left behind
NewVisited(old) == {}

NewQueue_Twice(old, first) == <<first, first>>

NewQueue(old, first) == <<first>>

NewResult(old) == <<>>

PopIndex_Last(q) == Len(q)

\* files_to_process.pop(0): the index that is removed
PopIndex(q) == 1

Remove(q, i) == SubSeq(q, 1, i - 1) \o SubSeq(q, i + 1, Len(q))

SeenBefore_Never(p, v) == FALSE

\* the test of line 99
SeenBefore(p, v) == p \in v

MarkVisited_Skip(v, p) == v

\* visited_files.add(current_file)
MarkVisited(v, p) == v \cup {p}

ErrorRecord_Dropped(d, p) == d

ErrorRecord_Reset(d, p) == <<[key |-> p, info |-> [error |-> "unreadable"]]>>

\* line 144: the error record of a file whose processing raised
ErrorRecord(d, p) == DictSet(d, p, [error |-> "unreadable"])

Eligible_Unchecked(path, visited) == path \notin visited

Eligible_Revisit(path, visited) == Exists(path)

\* the test of line 138
Eligible(path, visited) == Exists(path) /\ path \notin visited

\* the inner loop of lines 137-140: the path appended for one import, if any
RECURSIVE FirstMatch(_, _)
FirstMatch(paths, visited) ==
    IF Len(paths) = 0 THEN <<>>
    ELSE IF Eligible(Head(paths), visited) THEN <<Head(paths)>>
    ELSE FirstMatch(Tail(paths), visited)

\* the loop of lines 127-140 from the i-th import on
RECURSIVE ResolvedFrom(_, _, _, _, _)
ResolvedFrom(imports, i, base, current, visited) ==
    IF i > Len(imports) THEN <<>>
    ELSE FirstMatch(PossiblePaths(base, current, imports[i]), visited)
         \o ResolvedFrom(imports, i + 1, base, current, visited)

\* the loop of lines 127-140: the paths appended for the imports of a file
Resolved(imports, base, current, visited) ==
    ResolvedFrom(imports, 1, base, current, visited)

AfterError_Resolved(rest, base, current, visited) ==
    rest \o Resolved(WouldImport(current), base, current, visited)

\* the queue after an iteration that raised in parse_file (line 111)
AfterError(rest, base, current, visited) == rest

Current == files_to_process[PopIndex(files_to_process)]

Rest == Remove(files_to_process, PopIndex(files_to_process))

Looping == pc = "loop" /\ Len(files_to_process) > 0

\* lines 84-94, entered from get_concatenated_files_to_analyze (line 169)
WalkDirectory(start_file, bd) ==
    /\ args' = [start_file |-> start_file, base_dir |-> bd]
    /\ \E base \in {DefaultBase(start_file, bd)} :
       \E first \in {Join(base, start_file)} :
       \E queue \in {NewQueue(files_to_process, first)} :
           /\ base_dir' = base
           /\ seed' = first
           /\ visited_files' = NewVisited(visited_files)
           /\ files_to_process' = queue
           /\ result' = NewResult(result)
           /\ enqueued' = [i \in 1..Len(queue) |->
                              [path |-> queue[i], by |-> None]]
    /\ parsed' = <<>>
    /\ output' = <<>>
    /\ pc' = "loop"
    /\ UNCHANGED <<fs, calls>>
    /\ UNCHANGED index_vars

\* lines 97-100: the dequeued path was visited before
SkipVisited ==
    /\ Looping
    /\ SeenBefore(Current, visited_files)
    /\ files_to_process' = Rest
    /\ UNCHANGED <<fs, base_dir, seed, visited_files, result, output, pc,
                   parsed, enqueued, args, calls, prev>>
    /\ UNCHANGED index_vars

\* lines 97-105: the dequeued path is missing or is not a .py path
SkipMissing ==
    /\ Looping
    /\ ~SeenBefore(Current, visited_files)
    /\ Skipped(Current)
    /\ files_to_process' = Rest
    /\ visited_files' = MarkVisited(visited_files, Current)
    /\ UNCHANGED <<fs, base_dir, seed, result, output, pc, parsed, enqueued,
                   args, calls, prev>>
    /\ UNCHANGED index_vars

\* lines 97-140: the dequeued file is parsed and its imports are resolved
ProcessFile ==
    /\ Looping
    /\ ~SeenBefore(Current, visited_files)
    /\ ~Skipped(Current)
    /\ ~ParseFails(Current)
    /\ Len(parsed) < MaxParses
    /\ \E current \in {Current} :
       \E visited \in {MarkVisited(visited_files, current)} :
       \E root \in {parse_file(current)} :
       \E imports \in {extract_imports(root)} :
       \E new \in {Resolved(imports, base_dir, current, visited)} :
           /\ visited_files' = visited
           /\ result' = DictSet(result, current, [imports |-> imports])
           /\ files_to_process' = Rest \o new
           /\ enqueued' = enqueued \o
                  [i \in 1..Len(new) |-> [path |-> new[i], by |-> current]]
           /\ parsed' = Append(parsed, current)
    /\ UNCHANGED <<fs, base_dir, seed, output, pc, args, calls, prev>>
    /\ UNCHANGED index_vars

\* lines 97-111, 142-144: parse_file raises, the error is recorded
ProcessError ==
    /\ Looping
    /\ ~SeenBefore(Current, visited_files)
    /\ ~Skipped(Current)
    /\ ParseFails(Current)
    /\ Len(parsed) < MaxParses
    /\ \E current \in {Current} :
       \E visited \in {MarkVisited(visited_files, current)} :
       \E queue \in {AfterError(Rest, base_dir, current, visited)} :
           /\ visited_files' = visited
           /\ result' = ErrorRecord(result, current)
           /\ files_to_process' = queue
           /\ enqueued' = enqueued \o
                  [i \in 1..(Len(queue) - Len(Rest)) |->
                     [path |-> queue[Len(Rest) + i], by |-> current]]
           /\ parsed' = Append(parsed, current)
    /\ UNCHANGED <<fs, base_dir, seed, output, pc, args, calls, prev>>
    /\ UNCHANGED index_vars

\* lines 96, 146: the queue is empty, the result is returned
Return ==
    /\ pc = "loop"
    /\ Len(files_to_process) = 0
    /\ pc' = "returned"
    /\ UNCHANGED <<fs, base_dir, seed, visited_files, files_to_process,
                   result, output, parsed, enqueued, args, calls, prev>>
    /\ UNCHANGED index_vars

(***************************************************************************)
(* get_concatenated_files_to_analyze: the text is a sequence of pieces, a  *)
(* block "## <path>\n<code>" per file and a separator "\n\n" between.      *)
(***************************************************************************)
Block(p) == [kind |-> "block", path |-> p, code |-> FileAt(p).text]

Separator == [kind |-> "sep", path |-> <<>>, code |-> <<>>]

Files_Unfiltered(d) == [i \in 1..Len(d) |-> Block(d[i].key)]

\* lines 171-180: the list files
Files(d) ==
    Flatten([i \in 1..Len(d) |->
               IF HasError(d[i].info) THEN <<>>
               ELSE IF Exists(d[i].key) THEN <<Block(d[i].key)>>
               ELSE <<>>])

\* "\n\n".join(files)
JoinBlocks(files) ==
    Flatten([i \in 1..Len(files) |->
               IF i = 1 THEN <<files[i]>> ELSE <<Separator, files[i]>>])

\* lines 171-182
Format ==
    /\ pc = "returned"
    /\ output' = JoinBlocks(Files(result))
    /\ pc' = "done"
    /\ calls' = calls + 1
    /\ UNCHANGED <<fs, base_dir, seed, visited_files, files_to_process,
                   result, parsed, enqueued, args, prev>>
    /\ UNCHANGED index_vars

CrawlStart ==
    /\ base_dir = None
    /\ seed = <<>>
    /\ visited_files = {}
    /\ files_to_process = <<>>
    /\ result = <<>>
    /\ output = <<>>
    /\ pc = "idle"
    /\ parsed = <<>>
    /\ enqueued = <<>>
    /\ args = [start_file |-> <<>>, base_dir |-> None]
    /\ calls = 0
    /\ prev = [result |-> <<>>, output |-> <<>>]

\* index is not running
IndexOff ==
    /\ fetched = <<>>
    /\ agent_py = <<>>
    /\ sent = <<>>
    /\ index_pc = "off"

Start == CrawlStart /\ IndexOff

Init == IsFileSystem(fs, MaxFiles, MaxBad, MaxImports) /\ Start

\* the smaller filesystems of the termination check
InitLive == IsFileSystem(fs, LiveFiles, MaxBad, LiveImports) /\ Start

\* filesystems with one more file and one more import
InitWide == IsFileSystem(fs, MaxFiles + 1, MaxBad, MaxImports + 1) /\ Start

\* a first call of get_concatenated_files_to_analyze (line 169)
Call ==
    /\ pc = "idle"
    /\ \E c \in Calls : WalkDirectory(c[1], c[2])
    /\ UNCHANGED prev

\* the first call of the termination check
CallLive ==
    /\ pc = "idle"
    /\ \E c \in LiveCalls : WalkDirectory(c[1], c[2])
    /\ UNCHANGED prev

\* a later call with the same arguments, on the unchanged filesystem
CallAgain ==
    /\ pc = "done"
    /\ calls < MaxCalls
    /\ WalkDirectory(args.start_file, args.base_dir)
    /\ prev' = [result |-> result, output |-> output]

Next ==
    \/ Call
    \/ SkipVisited
    \/ SkipMissing
    \/ ProcessFile
    \/ ProcessError
    \/ Return
    \/ Format

Spec == Init /\ [][Next]_vars

SpecWide == InitWide /\ [][Next]_vars

NextLive ==
    \/ CallLive
    \/ SkipVisited
    \/ SkipMissing
    \/ ProcessFile
    \/ ProcessError
    \/ Return
    \/ Format

\* the loop runs to its end once entered: no step waits on anything
FairSpec == InitLive /\ [][NextLive]_vars /\ WF_vars(NextLive)

NextRepeat == Next \/ CallAgain

SpecRepeat == Init /\ [][NextRepeat]_vars

(***************************************************************************)
(* The import graph of the filesystem, as seen from base_dir: an import of *)
(* a readable file leads to its first candidate path that exists.          *)
(***************************************************************************)
ImportsOf(p) ==
    IF FileAt(p).kind = "ok" THEN extract_imports(parse_file(p)) ELSE <<>>

CandidateSet(p, imp) ==
    LET c == PossiblePaths(base_dir, p, imp) IN {c[i] : i \in 1..Len(c)}

Target(p, imp) == FirstMatch(PossiblePaths(base_dir, p, imp), {})

Edges(p) ==
    LET imps == ImportsOf(p)
        targets == {Target(p, imps[i]) : i \in 1..Len(imps)}
    IN  {t[1] : t \in targets \ {<<>>}}

\* the graph: the files each file of U imports
EdgeMap == [p \in U |-> Edges(p)]

Successors(E, S) == UNION {E[p] : p \in S \cap U}

RECURSIVE ReachFrom(_, _, _)
ReachFrom(E, S, n) ==
    IF n = 0 THEN S ELSE ReachFrom(E, S \cup Successors(E, S), n - 1)

Reachable(E, p) == ReachFrom(E, {p}, Len(UPaths))

Range(q) == {q[i] : i \in 1..Len(q)}

NoDuplicates(q) == \A i, j \in 1..Len(q) : q[i] = q[j] => i = j

(***************************************************************************)
(* C1: every call of walk_directory terminates, whatever the filesystem    *)
(* and the seed, cyclic and self-importing files included: once the loop   *)
(* is entered the pending queue eventually is empty and the result is      *)
(* returned.                                                               *)
(***************************************************************************)
C1_Terminates == (pc = "loop") ~> (pc = "returned" /\ Len(files_to_process) = 0)

\* a crawl has returned that parsed a file one of whose imports leads back
\* to a file parsed before it or to itself
C1_Witness ==
    /\ pc = "returned"
    /\ \E i, j \in 1..Len(parsed) :
          /\ i <= j
          /\ FileAt(parsed[j]).kind = "ok"
          /\ parsed[i] \in Edges(parsed[j])

(***************************************************************************)
(* C2: within one call no path is parsed more than once, and a dequeue of  *)
(* a path that is already visited parses nothing and leaves the result as  *)
(* it is.                                                                  *)
(***************************************************************************)
C2_ParsedOnce ==
    /\ [](NoDuplicates(parsed))
    /\ [][(Looping /\ Current \in visited_files)
            => (parsed' = parsed /\ result' = result)]_vars

\* a path was appended to the queue twice and the crawl has returned
C2_Witness ==
    /\ pc = "returned"
    /\ \E i, j \in 1..Len(enqueued) :
          /\ i < j
          /\ enqueued[i].path = enqueued[j].path
          /\ enqueued[i].path \in Range(parsed)

SeedOk == Exists(seed) /\ EndsWithPy(seed) /\ FileAt(seed).kind = "ok"

AllReadable(S) == \A p \in S : FileAt(p).kind = "ok"

AllResolve(S) ==
    \A p \in S : \A i \in 1..Len(ImportsOf(p)) :
        Target(p, ImportsOf(p)[i]) # <<>>

Acyclic(E, S) ==
    \A p \in S : p \notin ReachFrom(E, E[p], Len(UPaths))

(***************************************************************************)
(* C3: when the import graph below the seed is acyclic and all its files   *)
(* are readable and all their imports resolve, the keys of the returned    *)
(* result are exactly the files reachable from the seed, each once, and    *)
(* each of them was parsed exactly once.                                   *)
(***************************************************************************)
C3_ExactlyReachable ==
    (pc = "returned" /\ SeedOk)
    => LET E == EdgeMap
           R == Reachable(E, seed)
       IN  (AllReadable(R) /\ AllResolve(R) /\ Acyclic(E, R))
           => /\ KeySet(result) = R
              /\ Len(result) = Cardinality(R)
              /\ Range(parsed) = R
              /\ NoDuplicates(parsed)

(***************************************************************************)
(* C4: a crawl seeded at a file A that imports B, where B imports A (both  *)
(* readable, nothing else imported), returns exactly the keys A, B, once   *)
(* each and without error; a seed that imports only itself is recorded     *)
(* exactly once.                                                           *)
(***************************************************************************)
C4_CycleVisitedOnce ==
    (pc = "returned" /\ SeedOk)
    => LET E == EdgeMap
       IN  /\ \A B \in U :
                (/\ B # seed
                 /\ FileAt(B).kind = "ok"
                 /\ E[seed] = {B}
                 /\ E[B] = {seed})
                => /\ Keys(result) = <<seed, B>>
                   /\ \A i \in 1..Len(result) : ~HasError(result[i].info)
           /\ (E[seed] = {seed})
                => /\ Keys(result) = <<seed>>
                   /\ ~HasError(result[1].info)

(***************************************************************************)
(* C5: when parse_file raises on the dequeued file, the iteration appends  *)
(* an error record under that path, leaves every other entry as it is,     *)
(* stays in the loop with the rest of the queue, and the call returns      *)
(* only once every queued path has been dequeued.                          *)
(***************************************************************************)
C5_ErrorIsRecorded ==
    /\ [][(/\ Looping
            /\ Current \notin visited_files
            /\ Exists(Current) /\ EndsWithPy(Current)
            /\ ParseFails(Current))
           => (/\ pc' = "loop"
               /\ Len(result') = Len(result) + 1
               /\ result'[Len(result')].key = Current
               /\ HasError(result'[Len(result')].info)
               /\ \A i \in 1..Len(result) : result'[i] = result[i]
               /\ files_to_process' = Tail(files_to_process))]_vars
    /\ [](pc \in {"returned", "done"}
           => /\ \A i \in 1..Len(enqueued) : enqueued[i].path \in visited_files
              /\ \A p \in Range(parsed) :
                    ParseFails(p) =>
                      \E i \in 1..Len(result) :
                          result[i].key = p /\ HasError(result[i].info))

\* a returned result in which a file was recorded after an error record
C5_Witness ==
    /\ pc = "returned"
    /\ \E i, j \in 1..Len(result) :
          /\ i < j
          /\ HasError(result[i].info)
          /\ ~HasError(result[j].info)

Unresolved(p, imp) == \A c \in CandidateSet(p, imp) : ~Exists(c)

(***************************************************************************)
(* C6: an import of a parsed file none of whose four candidate paths       *)
(* exists puts nothing on the queue and creates no key: no candidate of    *)
(* it is ever appended to the queue or present in the result; a returned   *)
(* crawl whose seed has one import, unresolved, has the seed as its only   *)
(* entry.                                                                  *)
(***************************************************************************)
C6_UnresolvedIgnored ==
    /\ \A i \in 1..Len(result) :
          ~HasError(result[i].info) =>
            \A n \in 1..Len(result[i].info.imports) :
              Unresolved(result[i].key, result[i].info.imports[n]) =>
                \A c \in CandidateSet(result[i].key,
                                       result[i].info.imports[n]) :
                    /\ c \notin KeySet(result)
                    /\ c \notin Range(files_to_process)
                    /\ \A k \in 1..Len(enqueued) : enqueued[k].path # c
    /\ (/\ pc = "returned"
        /\ SeedOk
        /\ Len(ImportsOf(seed)) = 1
        /\ Unresolved(seed, ImportsOf(seed)[1]))
       => /\ Keys(result) = <<seed>>
          /\ ~HasError(result[1].info)
          /\ Len(enqueued) = 1

\* a crawl has returned whose seed has a single import, of a missing module
C6_Witness ==
    /\ pc = "returned"
    /\ SeedOk
    /\ Len(ImportsOf(seed)) = 1
    /\ Unresolved(seed, ImportsOf(seed)[1])
    /\ Len(result) = 1

\* the candidate paths of the imports of p
CandidatesOf(p) ==
    LET imps == ImportsOf(p)
    IN  UNION {CandidateSet(p, imps[n]) : n \in 1..Len(imps)}

\* the paths that are a candidate of an import of some readable file
ImportedByReadable == UNION {CandidatesOf(q) : q \in U}

(***************************************************************************)
(* C7: a file on which parse_file raises gets an error entry, no path is   *)
(* ever appended to the queue on account of its imports, and a file that   *)
(* is not the seed and that no readable file imports never is in the       *)
(* queue, the visited set or the result: whatever is there is the seed or  *)
(* a candidate path of an import of a readable file.                       *)
(***************************************************************************)
C7_FailedFileImportsNothing ==
    /\ \A i \in 1..Len(result) :
          ParseFails(result[i].key) <=> HasError(result[i].info)
    /\ \A p \in Range(parsed) : p \in KeySet(result)
    /\ \A k \in 1..Len(enqueued) : ~ParseFails(enqueued[k].by)
    /\ \A p \in Range(files_to_process) \cup visited_files \cup KeySet(result) :
          p = seed \/ p \in ImportedByReadable

\* a crawl has returned that reached an unreadable file through an import;
\* the text of that file imports an existing file that was never visited
C7_Witness ==
    /\ pc = "returned"
    /\ \E i \in 2..Len(result) :
          /\ HasError(result[i].info)
          /\ \E n \in 1..Len(WouldImport(result[i].key)) :
                \E c \in CandidateSet(result[i].key,
                                       WouldImport(result[i].key)[n]) :
                    Exists(c) /\ c \notin visited_files

RECURSIVE FirstIndex(_, _)
FirstIndex(q, x) == IF Head(q) = x THEN 1 ELSE 1 + FirstIndex(Tail(q), x)

EnqueuedPaths == [i \in 1..Len(enqueued) |-> enqueued[i].path]

\* the number of import edges on a shortest way from the seed to p
RECURSIVE DistFrom(_, _, _, _)
DistFrom(E, S, p, n) ==
    IF p \in S \/ n = 0 THEN 0
    ELSE 1 + DistFrom(E, S \cup Successors(E, S), p, n - 1)

Dist(E, p) == DistFrom(E, {seed}, p, Len(UPaths))

(***************************************************************************)
(* C8: the keys of the returned result are in breadth-first order: the     *)
(* seed first, then every path in the order of its first append to the     *)
(* queue, the files first appended for one file in the order of that       *)
(* file's imports, and no file at a greater import distance from the seed  *)
(* before a file at a smaller one.                                         *)
(***************************************************************************)
C8_BreadthFirstOrder ==
    pc = "returned"
    => /\ Len(result) > 0 => result[1].key = seed
       /\ \A i, j \in 1..Len(result) :
             i < j => FirstIndex(EnqueuedPaths, result[i].key)
                        < FirstIndex(EnqueuedPaths, result[j].key)
       /\ \A i \in 1..Len(result) :
             ~HasError(result[i].info) =>
               \A m, n \in 1..Len(result[i].info.imports) :
                 LET tm == Target(result[i].key, result[i].info.imports[m])
                     tn == Target(result[i].key, result[i].info.imports[n])
                 IN  (/\ m < n
                      /\ tm # <<>> /\ tn # <<>> /\ tm # tn
                      /\ tm[1] \in KeySet(result) /\ tn[1] \in KeySet(result)
                      /\ enqueued[FirstIndex(EnqueuedPaths, tm[1])].by
                            = result[i].key
                      /\ enqueued[FirstIndex(EnqueuedPaths, tn[1])].by
                            = result[i].key)
                     => FirstIndex(Keys(result), tm[1])
                          < FirstIndex(Keys(result), tn[1])
       /\ LET E == EdgeMap
              R == Reachable(E, seed)
          IN  \A i, j \in 1..Len(result) :
                (i < j /\ result[i].key \in R /\ result[j].key \in R)
                => Dist(E, result[i].key) <= Dist(E, result[j].key)

NoError(e) == ~HasError(e.info)

(***************************************************************************)
(* C9: the text returned by get_concatenated_files_to_analyze holds one    *)
(* block per result entry without error, in the order of the result, none  *)
(* for an entry with an error, and a separator between two blocks; the     *)
(* error entries still are in the result.                                  *)
(***************************************************************************)
C9_OneBlockPerGoodEntry ==
    pc = "done"
    => LET good == SelectSeq(result, NoError)
       IN  /\ Len(output) = IF Len(good) = 0 THEN 0 ELSE 2 * Len(good) - 1
           /\ \A i \in 1..Len(good) :
                 /\ output[2 * i - 1].kind = "block"
                 /\ output[2 * i - 1].path = good[i].key
                 /\ output[2 * i - 1].code = FileAt(good[i].key).text
           /\ \A i \in 1..(Len(good) - 1) : output[2 * i].kind = "sep"
           /\ \A p \in Range(parsed) :
                 ParseFails(p) =>
                   \E i \in 1..Len(result) :
                       result[i].key = p /\ HasError(result[i].info)

\* a text was returned for a result with an error entry and two good ones
C9_Witness ==
    /\ pc = "done"
    /\ Len(SelectSeq(result, NoError)) >= 2
    /\ Len(SelectSeq(result, NoError)) < Len(result)

(***************************************************************************)
(* C10: a second call with the same arguments on the unchanged filesystem  *)
(* returns the same result, keys in the same order, and the same text as   *)
(* the first: nothing of the first call is left to the second.             *)
(***************************************************************************)
C10_RepeatedCallsAgree ==
    (pc = "done" /\ calls >= 2)
    => /\ Keys(result) = Keys(prev.result)
       /\ result = prev.result
       /\ output = prev.output

\* a second call has returned a text of at least two blocks
C10_Witness ==
    /\ pc = "done"
    /\ calls = 2
    /\ Len(output) >= 3

(***************************************************************************)
(* C11: a crawl whose seed is a file without import constructs visits the  *)
(* seed and nothing else: the queue only ever received the seed, once, and *)
(* at the return the visited set and the keys of the result are the seed.  *)
(***************************************************************************)
C11_SeedWithoutImports ==
    (/\ pc \in {"loop", "returned", "done"}
     /\ Exists(seed) /\ EndsWithPy(seed)
     /\ WouldImport(seed) = <<>>)
    => /\ Len(enqueued) = 1
       /\ enqueued[1].path = seed
       /\ visited_files \subseteq {seed}
       /\ KeySet(result) \subseteq {seed}
       /\ pc \in {"returned", "done"}
            => /\ visited_files = {seed}
               /\ Keys(result) = <<seed>>

\* a crawl of a readable seed without imports has returned, beside other
\* files that exist
C11_Witness ==
    /\ pc = "returned"
    /\ FileAt(seed).kind = "ok"
    /\ EndsWithPy(seed)
    /\ WouldImport(seed) = <<>>
    /\ \E p \in U : p # seed /\ Exists(p)
    /\ Keys(result) = <<seed>>

\* the number of appends of p to the queue so far
Appends(p) == Cardinality({k \in 1..Len(enqueued) : enqueued[k].path = p})

(***************************************************************************)
(* C12, as stated: no path of the pending queue is in the visited set.     *)
(***************************************************************************)
C12_QueueDisjointFromVisited ==
    \A i \in 1..Len(files_to_process) :
        files_to_process[i] \notin visited_files

(***************************************************************************)
(* C12, amended: no path is appended to the queue while it is in the       *)
(* visited set; a path of the queue that is in the visited set was         *)
(* appended more than once, before its first dequeue, and its dequeue      *)
(* parses nothing and leaves the visited set and the result as they are.   *)
(***************************************************************************)
C12_NeverAppendedWhileVisited ==
    /\ [][\A k \in (Len(enqueued) + 1)..Len(enqueued') :
             enqueued'[k].path \notin visited_files']_vars
    /\ [](\A i \in 1..Len(files_to_process) :
             files_to_process[i] \in visited_files
               => Appends(files_to_process[i]) >= 2)
    /\ [][(Looping /\ Current \in visited_files)
            => /\ visited_files' = visited_files
               /\ parsed' = parsed
               /\ result' = result
               /\ files_to_process' = Tail(files_to_process)]_vars

\* the queue holds a path that was parsed after the seed
C12_Witness ==
    /\ pc = "loop"
    /\ \E i \in 1..Len(files_to_process) :
          /\ files_to_process[i] \in visited_files
          /\ files_to_process[i] \in Range(parsed)
          /\ files_to_process[i] # seed

(***************************************************************************)
(* C13: every key of the result is in the visited set.                     *)
(***************************************************************************)
C13_KeysAreVisited ==
    \A i \in 1..Len(result) : result[i].key \in visited_files

\* a returned result of three entries, one of them an error record
C13_Witness ==
    /\ pc = "returned"
    /\ Len(result) = 3
    /\ Cardinality(KeySet(result)) = 3
    /\ \E i \in 1..Len(result) : HasError(result[i].info)

\* the files parsed without error before the first parse of p (all of the
\* parsed ones when p was not parsed)
ParsedOkBefore(p) ==
    {parsed[i] : i \in {j \in 1..Len(parsed) :
                          /\ FileAt(parsed[j]).kind = "ok"
                          /\ \A k \in 1..j : parsed[k] # p}}

(***************************************************************************)
(* C14: every path of the visited set is the seed or one of the candidate  *)
(* paths of an import of a file that was parsed without error before it;   *)
(* an iteration of the loop removes the head of the queue and appends, at   *)
(* the tail, only candidate paths of imports of the dequeued file, which    *)
(* then is readable; the visited set never loses a path.                    *)
(***************************************************************************)
C14_VisitedComeFromImports ==
    /\ [](\A p \in visited_files :
             p = seed \/ \E q \in ParsedOkBefore(p) : p \in CandidatesOf(q))
    /\ [][(pc = "loop" /\ pc' = "loop")
            => /\ Len(files_to_process) > 0
               /\ Len(files_to_process') >= Len(files_to_process) - 1
               /\ SubSeq(files_to_process', 1, Len(files_to_process) - 1)
                    = Tail(files_to_process)
               /\ \A k \in Len(files_to_process)..Len(files_to_process') :
                     /\ FileAt(files_to_process[1]).kind = "ok"
                     /\ files_to_process'[k]
                          \in CandidatesOf(files_to_process[1])
               /\ visited_files \subseteq visited_files']_vars

\* a crawl has returned that visited a file two imports away from the seed
C14_Witness ==
    /\ pc = "returned"
    /\ \E p \in visited_files :
          /\ p # seed
          /\ p \notin CandidatesOf(seed)
          /\ \E q \in ParsedOkBefore(p) : q # seed /\ p \in CandidatesOf(q)

(***************************************************************************)
(* C15: the queue of a call starts with one element, the seed: start_file  *)
(* joined to base_dir, and, when base_dir was not given, the file that     *)
(* start_file itself denotes.                                              *)
(***************************************************************************)
C15_InitialQueueIsSeedFile ==
    pc \in {"loop", "returned", "done"}
    => /\ Len(enqueued) >= 1
       /\ enqueued[1].path = seed
       /\ enqueued[1].by = None
       /\ \A k \in 2..Len(enqueued) : enqueued[k].by # None
       /\ seed = Join(base_dir, args.start_file)
       /\ args.base_dir # None => base_dir = args.base_dir
       /\ args.base_dir = None => seed = Abspath(args.start_file)

\* the candidate paths of the import imp of p, in the order of the claim
FourCandidates(p, imp) ==
    << base_dir \o ModulePath(imp),
       Dirname(p) \o ModulePath(imp),
       base_dir \o RawPath(imp),
       Dirname(p) \o RawPath(imp) >>

\* the candidates of imp that exist and are not in the set visited
Matches(p, imp, visited) ==
    {k \in 1..4 : /\ Exists(FourCandidates(p, imp)[k])
                  /\ FourCandidates(p, imp)[k] \notin visited}

Least(S) == CHOOSE k \in S : \A j \in S : k <= j

\* what the imports of p from the i-th on are expected to append
RECURSIVE ExpectedFrom(_, _, _, _)
ExpectedFrom(p, imps, i, visited) ==
    IF i > Len(imps) THEN <<>>
    ELSE (IF Matches(p, imps[i], visited) = {} THEN <<>>
          ELSE <<FourCandidates(p, imps[i])[Least(Matches(p, imps[i], visited))]>>)
         \o ExpectedFrom(p, imps, i + 1, visited)

(***************************************************************************)
(* C16: the iteration that parses a file p appends to the queue, for each  *)
(* import of p in order, the first of its four candidate paths (in the     *)
(* order of FourCandidates) that exists and is not in the visited set, and *)
(* nothing else: at most one path per import; every candidate ends in .py. *)
(***************************************************************************)
C16_FirstMatchWins ==
    [][(/\ Looping
        /\ parsed' # parsed
        /\ FileAt(Current).kind = "ok")
       => /\ files_to_process'
               = Tail(files_to_process)
                   \o ExpectedFrom(Current, ImportsOf(Current), 1, visited_files')
          /\ Len(files_to_process')
               <= Len(files_to_process) - 1 + Len(ImportsOf(Current))
          /\ \A n \in 1..Len(ImportsOf(Current)) : \A k \in 1..4 :
                EndsWithPy(FourCandidates(Current, ImportsOf(Current)[n])[k])]_vars

\* a crawl has returned in which an import had two candidates that exist
\* and were not visited: the first was appended, the second never was
C16_Witness ==
    /\ pc = "returned"
    /\ \E e \in Range(enqueued) :
          /\ e.by # None
          /\ \E n \in 1..Len(ImportsOf(e.by)) : \E k \in 2..4 :
                LET c == FourCandidates(e.by, ImportsOf(e.by)[n])
                IN  /\ e.path = c[1]
                    /\ c[k] # c[1]
                    /\ Exists(c[k])
                    /\ c[k] \notin visited_files

(***************************************************************************)
(* C17: the dequeue of a path that does not exist or does not end in .py   *)
(* marks the path visited, parses nothing and stores no record; every key  *)
(* of the result exists and ends in .py; a crawl whose seed does not exist *)
(* returns the empty result.                                               *)
(***************************************************************************)
C17_MissingIsSkipped ==
    /\ [][(/\ Looping
            /\ Current \notin visited_files
            /\ (~Exists(Current) \/ ~EndsWithPy(Current)))
           => /\ visited_files' = visited_files \cup {Current}
              /\ result' = result
              /\ parsed' = parsed
              /\ files_to_process' = Tail(files_to_process)
              /\ pc' = "loop"]_vars
    /\ [](\A i \in 1..Len(result) :
             Exists(result[i].key) /\ EndsWithPy(result[i].key))
    /\ []((pc \in {"returned", "done"} /\ ~Exists(seed))
            => /\ result = <<>>
               /\ parsed = <<>>
               /\ visited_files = {seed})

\* a crawl of a missing .py seed has returned, beside files that exist
C17_Witness ==
    /\ pc = "returned"
    /\ ~Exists(seed)
    /\ EndsWithPy(seed)
    /\ visited_files = {seed}
    /\ result = <<>>
    /\ \E p \in U : Exists(p)

(***************************************************************************)
(* C18: a record of the result, success or error, is stored once: no step  *)
(* of the crawl changes or removes a record that is there, no key is       *)
(* stored twice, and a path with an error record is not parsed again.      *)
(***************************************************************************)
C18_RecordsAreFinal ==
    /\ [][pc = "loop"
            => /\ Len(result') >= Len(result)
               /\ \A i \in 1..Len(result) : result'[i] = result[i]
               /\ \A i \in 1..Len(result) :
                     HasError(result[i].info)
                       => \/ parsed' = parsed
                          \/ parsed'[Len(parsed')] # result[i].key]_vars
    /\ [](NoDuplicates(Keys(result)))
    /\ [](Len(result) = Len(parsed))

\* a crawl has returned that appended a path twice and stored an error
\* record for it
C18_Witness ==
    /\ pc = "returned"
    /\ \E i \in 1..Len(result) :
          /\ HasError(result[i].info)
          /\ Appends(result[i].key) >= 2

(***************************************************************************)
(* C20: every path appended to the queue for an import exists and ends in  *)
(* .py; when the crawl has ended the visited set is the set of keys of the *)
(* result, plus the seed when the seed is missing or does not end in .py.  *)
(***************************************************************************)
C20_VisitedAreKeysOrSeed ==
    /\ \A k \in 1..Len(enqueued) :
          enqueued[k].by # None
            => Exists(enqueued[k].path) /\ EndsWithPy(enqueued[k].path)
    /\ pc \in {"returned", "done"}
         => /\ KeySet(result) \subseteq visited_files
            /\ visited_files \ KeySet(result) \subseteq {seed}
            /\ seed \in visited_files
            /\ seed \notin KeySet(result)
                 <=> (~Exists(seed) \/ ~EndsWithPy(seed))

\* a crawl has returned with a record for each of several visited paths,
\* one of its files having an import that no existing path answers
C20_Witness ==
    /\ pc = "returned"
    /\ Len(result) >= 2
    /\ visited_files = KeySet(result)
    /\ \E i \in 1..Len(result) :
          /\ ~HasError(result[i].info)
          /\ \E n \in 1..Len(result[i].info.imports) :
                Unresolved(result[i].key, result[i].info.imports[n])

(***************************************************************************)
(* index of src/metadata.py, lines 81-90.  A text is a sequence of runs, a *)
(* run being a character and the number of times it is repeated; the       *)
(* characters of neighbouring runs differ.                                 *)
(***************************************************************************)
\* the length at and above which index cuts the text
Budget == 100000

Chars == {"#", "x"}

\* the run lengths of the explored texts
Lengths == {1, Budget \div 2, Budget - 1, Budget, Budget + 1}

Runs == [char : Chars, count : Lengths]

\* the texts get_concatenated_files_to_analyze may have returned
Texts ==
    UNION {{t \in [1..n -> Runs] :
              \A i \in 1..(n - 1) : t[i].char # t[i + 1].char} : n \in 0..MaxRuns}

\* len(t)
RECURSIVE StrLen(_)
StrLen(t) == IF Len(t) = 0 THEN 0 ELSE Head(t).count + StrLen(Tail(t))

Slice_Whole(t, n) == t

\* t[:n]
RECURSIVE Slice(_, _)
Slice(t, n) ==
    IF Len(t) = 0 \/ n <= 0 THEN <<>>
    ELSE IF Head(t).count <= n
    THEN <<Head(t)>> \o Slice(Tail(t), n - Head(t).count)
    ELSE <<[char |-> Head(t).char, count |-> n]>>

\* t[i - 1], for i in 1..len(t)
RECURSIVE CharAt(_, _)
CharAt(t, i) ==
    IF i <= Head(t).count THEN Head(t).char
    ELSE CharAt(Tail(t), i - Head(t).count)

\* the positions at which a run of t starts
RunStarts(t) == {1 + StrLen(SubSeq(t, 1, k - 1)) : k \in 1..Len(t)}

\* t.startswith(p): the two agree at every position of p; it is enough to
\* compare them where a run of either starts
IsPrefix(p, t) ==
    /\ StrLen(p) <= StrLen(t)
    /\ \A i \in RunStarts(p) \cup RunStarts(t) :
          i <= StrLen(p) => CharAt(p, i) = CharAt(t, i)

\* lines 84-85
Truncate ==
    /\ index_pc = "fetched"
    /\ agent_py' = IF StrLen(agent_py) >= Budget
                    THEN Slice(agent_py, Budget)
                    ELSE agent_py
    /\ index_pc' = "bounded"
    /\ UNCHANGED <<fetched, sent>>
    /\ UNCHANGED crawl_vars

\* line 89
generate_a2a_card ==
    /\ index_pc = "bounded"
    /\ sent' = Append(sent, agent_py)
    /\ index_pc' = "carded"
    /\ UNCHANGED <<fetched, agent_py>>
    /\ UNCHANGED crawl_vars

\* line 90
generate_nearai_metadata_json ==
    /\ index_pc = "carded"
    /\ sent' = Append(sent, agent_py)
    /\ index_pc' = "end"
    /\ UNCHANGED <<fetched, agent_py>>
    /\ UNCHANGED crawl_vars

\* index after line 81: agent_py is the text that was returned; the crawl
\* behind it is left out
InitIndex ==
    /\ fs = [i \in 1..Len(UPaths) |-> Absent]
    /\ CrawlStart
    /\ fetched \in Texts
    /\ agent_py = fetched
    /\ sent = <<>>
    /\ index_pc = "fetched"

NextIndex ==
    \/ Truncate
    \/ generate_a2a_card
    \/ generate_nearai_metadata_json

SpecIndex == InitIndex /\ [][NextIndex]_vars

(***************************************************************************)
(* C19: the text index passes to the two card generators is the same for   *)
(* both, has at most 100000 characters, is a prefix of the text that was   *)
(* returned to index, and is that text itself when it has fewer than       *)
(* 100000 characters.                                                      *)
(***************************************************************************)
C19_TextWithinBudget ==
    /\ index_pc \in {"bounded", "carded", "end"}
         => /\ StrLen(agent_py) <= Budget
            /\ IsPrefix(agent_py, fetched)
            /\ StrLen(fetched) < Budget => agent_py = fetched
            /\ StrLen(fetched) >= Budget => StrLen(agent_py) = Budget
    /\ \A i \in 1..Len(sent) : sent[i] = agent_py
    /\ index_pc = "end" => Len(sent) = 2

\* both generators were given a text that was cut inside its second run
C19_Witness ==
    /\ index_pc = "end"
    /\ Len(sent) = 2
    /\ StrLen(fetched) > Budget
    /\ Len(sent[2]) = 2
    /\ sent[2][2].count < fetched[2].count

====
